---- MODULE Spec2Model ----
(***************************************************************************)
(* livekit-dashboard: the multi-server configuration registry              *)
(* (app/services/server_config.py), the session accessors                  *)
(* (app/services/session.py) and the hybrid authentication gateway         *)
(* (app/security/session_auth.py, app/routes/auth.py).                     *)
(*                                                                         *)
(* Python values are modelled as follows.  A str is a TLA+ string, None is *)
(* the marker None, a dict that keeps insertion order is a sequence of its *)
(* values with pairwise distinct keys, the session (a dict of a few keys)  *)
(* is a function whose DOMAIN is the set of keys it holds.                 *)
(***************************************************************************)
EXTENDS Integers, Sequences, FiniteSets, TLC

VARIABLES
    env,        \* os.environ of the running process
    manager,    \* server_config._server_config_manager (None until constructed)
    boot,       \* outcome of the last ServerConfigManager() call
    session,    \* request.session of the one browser session
    req,        \* the request handled last
    resp        \* the response it got

vars == <<env, manager, boot, session, req, resp>>

None == "<None>"          \* Python None where a str is expected
Nil == [nil |-> TRUE]     \* Python None where an object is expected

(***************************************************************************)
(* Bounds                                                                  *)
(***************************************************************************)
MaxJsonEntries == 2     \* longest LIVEKIT_SERVERS array
MaxIndex == 3           \* highest n with LIVEKIT_*_n variables in the environment

(***************************************************************************)
(* Python truthiness of an optional string                                 *)
(***************************************************************************)
Truthy(v) == v # None /\ v # ""

\* str.lower() on the values ENABLE_SIP takes here
Lower(v) ==
    CASE v = "TRUE" -> "true"
      [] v = "True" -> "true"
      [] OTHER -> v

\* os.environ.get(name, default)
EnvGet(v, default) == IF v = None THEN default ELSE v

(***************************************************************************)
(* ServerConfig: the dataclass and its __post_init__ validation            *)
(***************************************************************************)
RequiredFields == {"id", "name", "url", "api_key", "api_secret"}
OptionalFields == {"sip_enabled", "description"}

\* __post_init__: an empty required field raises ValueError
post_init_raises(c) ==
    \/ ~Truthy(c.id)
    \/ ~Truthy(c.name)
    \/ ~Truthy(c.url)
    \/ ~Truthy(c.api_key)
    \/ ~Truthy(c.api_secret)

\* ServerConfig(**data) for a keyword dict `data`: TypeError on a missing
\* required or an unexpected keyword, ValueError from __post_init__.
ServerConfig(data) ==
    IF ~(RequiredFields \subseteq DOMAIN data)
       \/ ~(DOMAIN data \subseteq RequiredFields \cup OptionalFields)
    THEN [raised |-> "TypeError"]
    ELSE LET c == [id |-> data.id, name |-> data.name, url |-> data.url,
                   api_key |-> data.api_key, api_secret |-> data.api_secret,
                   sip_enabled |-> IF "sip_enabled" \in DOMAIN data
                                   THEN data.sip_enabled ELSE FALSE,
                   description |-> IF "description" \in DOMAIN data
                                   THEN data.description ELSE None]
         IN IF post_init_raises(c) THEN [raised |-> "ValueError"]
            ELSE [raised |-> "none", value |-> c]

(***************************************************************************)
(* dict operations on ServerConfigManager._servers                         *)
(***************************************************************************)
Keys(d) == {d[i].id : i \in DOMAIN d}

\* d[cfg.id] = cfg: a new key goes last, an existing key keeps its place
DictSet(d, cfg) ==
    IF cfg.id \in Keys(d)
    THEN [i \in DOMAIN d |-> IF d[i].id = cfg.id THEN cfg ELSE d[i]]
    ELSE Append(d, cfg)

\* d.get(key), Nil when the key is missing
DictGet(d, key) ==
    IF key \in Keys(d)
    THEN d[CHOOSE i \in DOMAIN d : d[i].id = key]
    ELSE Nil

(***************************************************************************)
(* ServerConfigManager._load_configurations                                *)
(* m is the object under construction: [servers, default_server_id].       *)
(***************************************************************************)
\* StoreJsonServer with the guard of line 52 dropped: every entry becomes the default
StoreJsonServerLastDefault(m, server) ==
    [servers |-> DictSet(m.servers, server), default_server_id |-> server.id]

\* the loop body of method 1 for one accepted entry (lines 51-53)
StoreJsonServer(m, server) ==
    [servers |-> DictSet(m.servers, server),
     default_server_id |-> IF ~Truthy(m.default_server_id)
                           THEN server.id ELSE m.default_server_id]

\* for server_data in servers_data (lines 49-53); an exception leaves the
\* loop with whatever the earlier entries stored
RECURSIVE LoadJsonEntries(_, _, _)
\* one turn of the loop: r is ServerConfig(**server_data)
LoadJsonEntry(items, i, m, r) ==
    IF r.raised # "none" THEN [raised |-> r.raised, m |-> m]
    ELSE LoadJsonEntries(items, i + 1, StoreJsonServer(m, r.value))

LoadJsonEntries(items, i, m) ==
    IF i > Len(items) THEN [raised |-> "none", m |-> m]
    ELSE LoadJsonEntry(items, i, m, ServerConfig(items[i]))

\* LoadFromJson without the `return` of line 54: the other methods run too
LoadFromJsonNoReturn(e, m) ==
    IF e.LIVEKIT_SERVERS.kind = "array"
    THEN [returned |-> FALSE, m |-> LoadJsonEntries(e.LIVEKIT_SERVERS.items, 1, m).m]
    ELSE [returned |-> FALSE, m |-> m]

\* the end of the try block: `return` (line 54) unless the loop raised
JsonOutcome(r) == [returned |-> r.raised = "none", m |-> r.m]

\* Method 1 (lines 45-56): returned = TRUE is the `return` of line 54
LoadFromJson(e, m) ==
    IF e.LIVEKIT_SERVERS.kind \in {"unset", "empty"} THEN [returned |-> FALSE, m |-> m]
    ELSE IF e.LIVEKIT_SERVERS.kind = "malformed" THEN [returned |-> FALSE, m |-> m]
    ELSE IF e.LIVEKIT_SERVERS.kind = "null" THEN [returned |-> FALSE, m |-> m]
    ELSE JsonOutcome(LoadJsonEntries(e.LIVEKIT_SERVERS.items, 1, m))

\* LoadPrimary without line 75: "primary" is stored but not made the default
LoadPrimaryKeepDefault(e, m) ==
    IF Truthy(e.LIVEKIT_URL) /\ Truthy(e.LIVEKIT_API_KEY)
       /\ Truthy(e.LIVEKIT_API_SECRET)
    THEN [servers |-> DictSet(m.servers,
                        [id |-> "primary", name |-> "Primary Server",
                         url |-> e.LIVEKIT_URL, api_key |-> e.LIVEKIT_API_KEY,
                         api_secret |-> e.LIVEKIT_API_SECRET,
                         sip_enabled |-> FALSE,
                         description |-> "Primary LiveKit server"]),
          default_server_id |-> m.default_server_id]
    ELSE m

\* Method 2 (lines 59-75)
LoadPrimary(e, m) ==
    IF Truthy(e.LIVEKIT_URL) /\ Truthy(e.LIVEKIT_API_KEY)
       /\ Truthy(e.LIVEKIT_API_SECRET)
    THEN [servers |-> DictSet(m.servers,
                ServerConfig(
                    [id |-> "primary", name |-> "Primary Server",
                     url |-> e.LIVEKIT_URL, api_key |-> e.LIVEKIT_API_KEY,
                     api_secret |-> e.LIVEKIT_API_SECRET,
                     sip_enabled |-> Lower(EnvGet(e.ENABLE_SIP, "false")) = "true",
                     description |-> "Primary LiveKit server"]).value),
          default_server_id |-> "primary"]
    ELSE m

\* os.environ.get(f"LIVEKIT_<field>_{n}")
NumberedGet(e, n, field) ==
    IF n \in DOMAIN e.numbered THEN e.numbered[n][field] ELSE None

\* the break condition of line 86
ScanStops(url, key, secret) == ~(Truthy(url) /\ Truthy(key) /\ Truthy(secret))

\* NumberedDefault with the guard of line 102 dropped
NumberedDefaultAlways(m, server_id) == server_id

\* line 102: the first numbered server is the default if none is set yet
NumberedDefault(m, server_id) ==
    IF ~Truthy(m.default_server_id) THEN server_id ELSE m.default_server_id

RECURSIVE ScanNumbered(_, _, _)
\* lines 89-105 of one turn of the scan: r is the ServerConfig(...) of line 90
StoreNumbered(e, server_index, m, server_id, r) ==
    IF r.raised # "none" THEN [raised |-> r.raised, m |-> m]
    ELSE ScanNumbered(e, server_index + 1,
            [servers |-> DictSet(m.servers, r.value),
             default_server_id |-> NumberedDefault(m, server_id)])

\* Method 3 (lines 78-105), from index server_index on
ScanNumbered(e, server_index, m) ==
    LET server_url == NumberedGet(e, server_index, "url")
        server_key == NumberedGet(e, server_index, "key")
        server_secret == NumberedGet(e, server_index, "secret")
        server_name == EnvGet(NumberedGet(e, server_index, "name"),
                              "Server " \o ToString(server_index))
        server_sip == Lower(EnvGet(NumberedGet(e, server_index, "sip"), "false")) = "true"
    IN  IF ScanStops(server_url, server_key, server_secret)
        THEN [raised |-> "none", m |-> m]
        ELSE StoreNumbered(e, server_index, m, "server_" \o ToString(server_index),
                ServerConfig(
                    [id |-> "server_" \o ToString(server_index), name |-> server_name,
                     url |-> server_url, api_key |-> server_key,
                     api_secret |-> server_secret, sip_enabled |-> server_sip,
                     description |-> "LiveKit server " \o ToString(server_index)]))

\* the first index of the scan (line 78)
FirstIndex == 1

\* lines 107-112: no server at all is an error
CheckNotEmpty(s) ==
    IF s.raised # "none" THEN s
    ELSE IF s.m.servers = <<>> THEN [raised |-> "ValueError", m |-> s.m]
    ELSE s

\* lines 58-112, entered unless method 1 returned
AfterJson(e, a) ==
    IF a.returned THEN [raised |-> "none", m |-> a.m]
    ELSE CheckNotEmpty(ScanNumbered(e, FirstIndex, LoadPrimary(e, a.m)))

\* _load_configurations on a fresh object (lines 37-112)
load_configurations(e) ==
    AfterJson(e, LoadFromJson(e, [servers |-> <<>>, default_server_id |-> None]))

(***************************************************************************)
(* ServerConfigManager accessors                                           *)
(***************************************************************************)
get_server(m, server_id) == DictGet(m.servers, server_id)

get_default_server(m) ==
    IF Truthy(m.default_server_id)
    THEN DictGet(m.servers, m.default_server_id)
    ELSE Nil

list_servers(m) == m.servers

(***************************************************************************)
(* The environments the process is started in                              *)
(***************************************************************************)
JsonItem(id, url, secret) ==
    [id |-> id, name |-> "Name " \o id, url |-> url,
     api_key |-> "key-" \o id, api_secret |-> secret]

JsonItems ==
    { JsonItem("a", "wss://a1", "sa"),
      JsonItem("primary", "wss://jp", "sp"),
      JsonItem("server_1", "wss://js", "ss"),
      JsonItem("c", "wss://c", ""),            \* fails __post_init__
      [id |-> "d", name |-> "Name d"] }        \* lacks required keys

RECURSIVE SeqsUpTo(_, _)
SeqsUpTo(S, n) ==
    IF n = 0 THEN {<<>>}
    ELSE LET shorter == SeqsUpTo(S, n - 1)
         IN shorter \cup {Append(s, x) : s \in {t \in shorter : Len(t) = n - 1}, x \in S}

\* LIVEKIT_SERVERS: unset, the empty string, text that is not JSON, the JSON
\* value null, or a JSON array of objects
JsonValues ==
    {[kind |-> k, items |-> <<>>] : k \in {"unset", "empty", "malformed", "null"}}
    \cup {[kind |-> "array", items |-> s] : s \in SeqsUpTo(JsonItems, MaxJsonEntries)}

FlatValues ==
    { [LIVEKIT_URL |-> None, LIVEKIT_API_KEY |-> None,
       LIVEKIT_API_SECRET |-> None, ENABLE_SIP |-> None],
      [LIVEKIT_URL |-> "wss://p", LIVEKIT_API_KEY |-> "pk",
       LIVEKIT_API_SECRET |-> "ps", ENABLE_SIP |-> "True"],
      [LIVEKIT_URL |-> "wss://p", LIVEKIT_API_KEY |-> "",
       LIVEKIT_API_SECRET |-> "ps", ENABLE_SIP |-> None] }

NumberedGroups ==
    { [url |-> None, key |-> None, secret |-> None, name |-> None, sip |-> None],
      [url |-> "wss://n", key |-> "nk", secret |-> "ns", name |-> None, sip |-> None],
      [url |-> "wss://n", key |-> "nk", secret |-> "ns", name |-> "", sip |-> "TRUE"],
      [url |-> "wss://n", key |-> None, secret |-> "ns", name |-> "Edge", sip |-> None] }

MakeEnv(j, f, n, u, p) ==
    [LIVEKIT_SERVERS |-> j,
     LIVEKIT_URL |-> f.LIVEKIT_URL, LIVEKIT_API_KEY |-> f.LIVEKIT_API_KEY,
     LIVEKIT_API_SECRET |-> f.LIVEKIT_API_SECRET, ENABLE_SIP |-> f.ENABLE_SIP,
     numbered |-> n, ADMIN_USERNAME |-> u, ADMIN_PASSWORD |-> p]

LoadEnvs ==
    {MakeEnv(j, f, n, None, None) :
        j \in JsonValues, f \in FlatValues, n \in [1..MaxIndex -> NumberedGroups]}

(***************************************************************************)
(* The environments of the deployments                                     *)
(***************************************************************************)
NoNumbered == [n \in 1..MaxIndex |-> [url |-> None, key |-> None, secret |-> None,
                                      name |-> None, sip |-> None]]
FlatUnset == [LIVEKIT_URL |-> None, LIVEKIT_API_KEY |-> None,
              LIVEKIT_API_SECRET |-> None, ENABLE_SIP |-> None]
FlatSet == [LIVEKIT_URL |-> "wss://p", LIVEKIT_API_KEY |-> "pk",
            LIVEKIT_API_SECRET |-> "ps", ENABLE_SIP |-> "True"]
JsonUnset == [kind |-> "unset", items |-> <<>>]


DeployEnvs ==
    { MakeEnv(x[1], x[2], x[3], x[4], x[5]) :
        x \in
          { <<[kind |-> "array",
               items |-> <<JsonItem("a", "wss://a1", "sa"),
                           JsonItem("server_1", "wss://js", "ss")>>], FlatUnset, NoNumbered,
              None, None>>,
            <<JsonUnset, FlatSet, NoNumbered, None, None>>,
            <<JsonUnset, FlatSet, NoNumbered, "root", "s:p">>,
            <<JsonUnset, FlatSet,
              [NoNumbered EXCEPT ![1] = [url |-> "wss://n", key |-> "nk", secret |-> "ns",
                                         name |-> None, sip |-> None]],
              None, None>>,
            <<[kind |-> "array", items |-> <<>>], FlatUnset, NoNumbered, None, None>>,
            <<JsonUnset, FlatUnset, NoNumbered, None, None>> } }

NoRequest == [kind |-> "none"]
NoResponse == [status |-> 0]
EmptySession == [k \in {} |-> None]

(***************************************************************************)
(* Process start: get_server_config_manager() builds the global instance   *)
(* on its first call; a constructor that raises leaves it unset.           *)
(***************************************************************************)
Startup ==
    /\ manager = Nil
    /\ \E r \in {load_configurations(env)} :
          /\ boot' = r.raised
          /\ manager' = IF r.raised = "none" THEN r.m ELSE Nil
    /\ req' = NoRequest
    /\ resp' = NoResponse
    /\ UNCHANGED <<env, session>>

InitLoad ==
    /\ env \in LoadEnvs
    /\ manager = Nil
    /\ boot = "unstarted"
    /\ session = EmptySession
    /\ req = NoRequest
    /\ resp = NoResponse

NextLoad == Startup /\ boot = "unstarted"

SpecLoad == InitLoad /\ [][NextLoad]_vars

(***************************************************************************)
(* get_server_config_manager(): the global instance, built on first use    *)
(***************************************************************************)
\* the global instance after ServerConfigManager(): unset if it raised
Instance(r) ==
    IF r.raised = "none" THEN [raised |-> "none", manager |-> r.m]
    ELSE [raised |-> r.raised, manager |-> Nil]

get_server_config_manager(mgr, e) ==
    IF mgr # Nil THEN [raised |-> "none", manager |-> mgr]
    ELSE Instance(load_configurations(e))

(***************************************************************************)
(* request.session: a dict                                                 *)
(***************************************************************************)
SESSION_SERVER_KEY == "selected_server_id"
SESSION_USER_KEY == "authenticated_user"
SESSION_AUTH_KEY == "is_authenticated"
CSRF_KEY == "csrf_token"

Has(s, k) == k \in DOMAIN s
Get(s, k, default) == IF k \in DOMAIN s THEN s[k] ELSE default
Put(s, k, v) == [x \in DOMAIN s \cup {k} |-> IF x = k THEN v ELSE s[x]]
Del(s, k) == [x \in DOMAIN s \ {k} |-> s[x]]
Clear(s) == EmptySession

(***************************************************************************)
(* SessionManager (app/services/session.py).  Each operation returns the   *)
(* session, the global manager and the exception it leaves behind.         *)
(***************************************************************************)
get_selected_server_id(s) == Get(s, SESSION_SERVER_KEY, None)

\* lines 24-28 without the validation of lines 24-25
StoreSelectionUnchecked(s, g, server_id) ==
    IF g.raised # "none"
    THEN [raised |-> g.raised, ret |-> None, session |-> s, manager |-> g.manager]
    ELSE [raised |-> "none", ret |-> "True",
          session |-> Put(s, SESSION_SERVER_KEY, server_id), manager |-> g.manager]

\* lines 24-28: g is the outcome of get_server_config_manager()
StoreSelection(s, g, server_id) ==
    IF g.raised # "none"
    THEN [raised |-> g.raised, ret |-> None, session |-> s, manager |-> g.manager]
    ELSE IF get_server(g.manager, server_id) = Nil
    THEN [raised |-> "none", ret |-> "False", session |-> s, manager |-> g.manager]
    ELSE [raised |-> "none", ret |-> "True",
          session |-> Put(s, SESSION_SERVER_KEY, server_id), manager |-> g.manager]

set_selected_server_id(s, mgr, e, server_id) ==
    StoreSelection(s, get_server_config_manager(mgr, e), server_id)

\* lines 37-43 without the re-validation of line 39
ResolveSelectionStored(g, server_id) ==
    IF g.raised # "none" THEN [raised |-> g.raised, ret |-> None, manager |-> g.manager]
    ELSE [raised |-> "none", ret |-> server_id, manager |-> g.manager]

\* lines 37-43: g is the outcome of get_server_config_manager()
ResolveSelection(g, server_id) ==
    IF g.raised # "none" THEN [raised |-> g.raised, ret |-> None, manager |-> g.manager]
    ELSE IF get_server(g.manager, server_id) # Nil
    THEN [raised |-> "none", ret |-> server_id, manager |-> g.manager]
    ELSE [raised |-> "none", ret |-> None, manager |-> g.manager]

get_current_server_id(s, mgr, e) ==
    IF Truthy(get_selected_server_id(s))
    THEN ResolveSelection(get_server_config_manager(mgr, e), get_selected_server_id(s))
    ELSE [raised |-> "none", ret |-> None, manager |-> mgr]

\* clear_server_selection done with request.session.clear()
clear_server_selection_whole_session(s) == Clear(s)

\* lines 48-49
clear_server_selection(s) ==
    IF Has(s, SESSION_SERVER_KEY) THEN Del(s, SESSION_SERVER_KEY) ELSE s

\* get_current_server_id(request) is not None
IsNotNone(c) ==
    [raised |-> c.raised,
     ret |-> IF c.raised # "none" THEN None
             ELSE IF c.ret # None THEN "True" ELSE "False",
     manager |-> c.manager]

has_server_selection(s, mgr, e) == IsNotNone(get_current_server_id(s, mgr, e))

(***************************************************************************)
(* SessionAuth (app/security/session_auth.py)                              *)
(***************************************************************************)
DEFAULT_ADMIN_USERNAME == "admin"
DEFAULT_ADMIN_PASSWORD == "changeme"

\* verify_credentials that is content with one of the two matching
verify_credentials_either(e, username, password) ==
    \/ username = EnvGet(e.ADMIN_USERNAME, DEFAULT_ADMIN_USERNAME)
    \/ password = EnvGet(e.ADMIN_PASSWORD, DEFAULT_ADMIN_PASSWORD)

verify_credentials(e, username, password) ==
    LET correct_username == EnvGet(e.ADMIN_USERNAME, DEFAULT_ADMIN_USERNAME)
        correct_password == EnvGet(e.ADMIN_PASSWORD, DEFAULT_ADMIN_PASSWORD)
        username_correct == username = correct_username
        password_correct == password = correct_password
    IN  username_correct /\ password_correct

\* login_user that starts a new session for the user
login_user_new_session(s, username) ==
    Put(Put(EmptySession, SESSION_AUTH_KEY, TRUE), SESSION_USER_KEY, username)

\* login_user that forgets to mark the session authenticated
login_user_no_flag(s, username) == Put(s, SESSION_USER_KEY, username)

login_user(s, username) ==
    Put(Put(s, SESSION_AUTH_KEY, TRUE), SESSION_USER_KEY, username)

\* logout_user that removes the two authentication keys only
logout_user_auth_keys_only(s) == Del(Del(s, SESSION_AUTH_KEY), SESSION_USER_KEY)

logout_user(s) == Clear(s)

is_authenticated(s) == Get(s, SESSION_AUTH_KEY, FALSE)

get_current_user(s) ==
    IF is_authenticated(s) THEN Get(s, SESSION_USER_KEY, None) ELSE None

(***************************************************************************)
(* Request headers.  An Authorization header is its scheme prefix and the  *)
(* rest; the rest is base64 text that decodes to a sequence of characters  *)
(* or does not decode.  An Accept header is a list of media ranges, each   *)
(* with its quality in tenths.                                             *)
(***************************************************************************)
RECURSIVE Join(_)
Join(cs) == IF cs = <<>> THEN "" ELSE Head(cs) \o Join(Tail(cs))

\* base64.b64decode(encoded).decode("utf-8")
B64Decode(encoded) ==
    IF encoded.valid THEN [raised |-> "none", decoded |-> encoded.chars]
    ELSE [raised |-> "Error", decoded |-> <<>>]

\* decoded.split(":", 1) unpacked into two names: ValueError without a colon
SplitCredentials(decoded) ==
    IF \E i \in DOMAIN decoded : decoded[i] = ":"
    THEN LET i == CHOOSE k \in DOMAIN decoded :
                    /\ decoded[k] = ":"
                    /\ \A h \in 1..(k - 1) : decoded[h] # ":"
         IN [raised |-> "none",
             username |-> Join(SubSeq(decoded, 1, i - 1)),
             password |-> Join(SubSeq(decoded, i + 1, Len(decoded)))]
    ELSE [raised |-> "ValueError", username |-> None, password |-> None]

\* lines 100-105 without the verify_credentials of line 102
VerifyDecodedUnchecked(e, c) ==
    IF c.raised = "none" THEN c.username ELSE None

\* lines 100-105: the username accepted from the decoded credentials c
VerifyDecoded(e, c) ==
    IF c.raised = "none" /\ verify_credentials(e, c.username, c.password)
    THEN c.username ELSE None

\* lines 98-100: d is the outcome of the base64 and utf-8 decoding
DecodeCredentials(e, d) ==
    IF d.raised = "none" THEN VerifyDecoded(e, SplitCredentials(d.decoded)) ELSE None

\* the Basic channel of requires_admin_hybrid (lines 94-107): the username it
\* accepts, or None
BasicChannel(e, authorization) ==
    IF authorization.scheme = "Basic "
    THEN DecodeCredentials(e, B64Decode(authorization.encoded))
    ELSE None

\* "text/html" in accept_header
MentionsHtml(accept) == \E i \in DOMAIN accept : accept[i].type = "text/html"

\* the test of line 111 done on the first media range only
MentionsHtmlFirst(accept) == accept # <<>> /\ accept[1].type = "text/html"

\* the browser test of requires_admin_hybrid (lines 110-111)
IsBrowserRequest(accept) == MentionsHtml(accept)

\* channel names the branch that accepted: "session" (line 91) or "basic" (line 105)
Accepted(user, s, channel) ==
    [accepted |-> TRUE, user |-> user, session |-> s, channel |-> channel,
     status |-> 200, location |-> None, challenge |-> None]

Rejected(status, location, challenge, s) ==
    [accepted |-> FALSE, user |-> None, session |-> s, channel |-> "none",
     status |-> status, location |-> location, challenge |-> challenge]

HTTP_303_SEE_OTHER == 303
HTTP_401_UNAUTHORIZED == 401

\* lines 109-124: no valid authentication found
Unauthenticated(s, r) ==
    IF IsBrowserRequest(r.accept)
    THEN Rejected(HTTP_303_SEE_OTHER, "/login", None, s)
    ELSE Rejected(HTTP_401_UNAUTHORIZED, None, "Basic, Session", s)

\* lines 93-124 with the auto-login of line 104 left out
BasicOrRejectNoLogin(s, r, username) ==
    IF username # None THEN Accepted(username, s, "basic") ELSE Unauthenticated(s, r)

\* lines 93-124: username is what the Basic channel accepted, or None
BasicOrReject(s, r, username) ==
    IF username # None THEN Accepted(username, login_user(s, username), "basic")
    ELSE Unauthenticated(s, r)

\* the two channels in the other order: the Basic header is tried first
BasicBeforeSession(s, r, username) ==
    IF username # None THEN Accepted(username, login_user(s, username), "basic")
    ELSE IF is_authenticated(s) THEN Accepted(get_current_user(s), s, "session")
    ELSE Unauthenticated(s, r)

requires_admin_hybrid_basic_first(s, e, r) ==
    BasicBeforeSession(s, r, BasicChannel(e, r.authorization))

requires_admin_hybrid(s, e, r) ==
    IF is_authenticated(s) THEN Accepted(get_current_user(s), s, "session")
    ELSE BasicOrReject(s, r, BasicChannel(e, r.authorization))

(***************************************************************************)
(* CsrfGuard (app/security/csrf.py): one token per session, created on     *)
(* first access and kept in the session; a submitted token is valid when   *)
(* it is the session's token.                                              *)
(***************************************************************************)
get_csrf_token(s, fresh) ==
    IF Has(s, CSRF_KEY) THEN [token |-> s[CSRF_KEY], session |-> s]
    ELSE [token |-> fresh, session |-> Put(s, CSRF_KEY, fresh)]

csrf_validate(s, token) == Has(s, CSRF_KEY) /\ token = s[CSRF_KEY]

(***************************************************************************)
(* get_current_user_hybrid (app/security/session_auth.py, lines 127-146)    *)
(***************************************************************************)
\* line 141: username, _ = decoded.split(":", 1)
HybridSplit(c) == IF c.raised = "none" THEN c.username ELSE None

\* lines 139-144: d is the outcome of the base64 and utf-8 decoding
HybridDecode(d) ==
    IF d.raised = "none" THEN HybridSplit(SplitCredentials(d.decoded)) ELSE None

\* lines 135-146: the Basic branch returns the name the header carries
HybridBasic(authorization) ==
    IF authorization.scheme = "Basic "
    THEN HybridDecode(B64Decode(authorization.encoded))
    ELSE None

get_current_user_hybrid(s, r) ==
    IF Truthy(get_current_user(s)) THEN get_current_user(s)
    ELSE HybridBasic(r.authorization)

(***************************************************************************)
(* app/utils/route_helpers.py.  The LiveKit client (app/services/livekit)  *)
(* is the external collaborator: a client is represented by the profile    *)
(* it was created for.                                                     *)
(***************************************************************************)
create_livekit_client(mgr, server_id) == get_server(mgr, server_id)

\* `raise RedirectResponse(...)` (line 18): a RedirectResponse is not an
\* exception, so the raise statement itself raises TypeError
RaiseRedirectResponse == "TypeError"

\* lines 17-20: c is the outcome of get_current_server_id(request)
ClientFor(c) ==
    IF c.raised # "none" THEN [raised |-> c.raised, lk |-> Nil, manager |-> c.manager]
    ELSE IF ~Truthy(c.ret)
    THEN [raised |-> RaiseRedirectResponse, lk |-> Nil, manager |-> c.manager]
    ELSE [raised |-> "none", lk |-> create_livekit_client(c.manager, c.ret),
          manager |-> c.manager]

get_livekit_client_for_request(s, mgr, e) == ClientFor(get_current_server_id(s, mgr, e))

\* lines 37-44: sip_enabled of the client of the current server, False without one
SipEnabled(mgr, server_id) ==
    IF Truthy(server_id) /\ create_livekit_client(mgr, server_id) # Nil
    THEN create_livekit_client(mgr, server_id).sip_enabled
    ELSE FALSE

\* lines 26-53: g is the outcome of get_server_config_manager(), c that of
\* get_current_server_id(request), t that of get_csrf_token(request)
BaseContext(s, r, g, c, t) ==
    IF g.raised # "none"
    THEN [raised |-> g.raised, bundle |-> Nil, session |-> s, manager |-> g.manager]
    ELSE [raised |-> "none",
          bundle |-> [current_user |-> get_current_user_hybrid(s, r),
                      sip_enabled |-> SipEnabled(g.manager, c.ret),
                      csrf_token |-> t.token,
                      servers |-> Keys(g.manager.servers),
                      current_server_id |-> c.ret],
          session |-> t.session, manager |-> g.manager]

get_base_template_context(s, mgr, e, r, fresh) ==
    BaseContext(s, r, get_server_config_manager(mgr, e),
                get_current_server_id(s, mgr, e), get_csrf_token(s, fresh))

\* verify_csrf_token(request) (app/security/csrf.py): the form's csrf_token
\* is validated, a failure raises HTTPException with the client error 403
verify_csrf_token(s, r) ==
    IF csrf_validate(s, r.form.csrf_token) THEN "none" ELSE "HTTPException"

(***************************************************************************)
(* Requests and responses                                                  *)
(***************************************************************************)
Encoded(valid, chars) == [valid |-> valid, chars |-> chars]

NoAuthorization == [scheme |-> "", encoded |-> Encoded(TRUE, <<>>)]

CredentialTexts ==
    { <<"admin", ":", "changeme">>,       \* the default credentials
      <<"root", ":", "s", ":", "p">>,     \* a password that holds a colon
      <<"admin", ":", "x">>,
      <<"admin">> }                       \* no colon

AuthorizationHeaders ==
    {NoAuthorization}
    \cup {[scheme |-> "Basic ", encoded |-> Encoded(TRUE, t)] : t \in CredentialTexts}
    \cup {[scheme |-> "Basic ", encoded |-> Encoded(FALSE, <<"admin", ":", "changeme">>)],
          [scheme |-> "Bearer ", encoded |-> Encoded(TRUE, <<"admin", ":", "changeme">>)]}

MediaRange(type, q) == [type |-> type, q |-> q]

\* the headers the form posts are sent with
FormAuthorizationHeaders ==
    {NoAuthorization,
     [scheme |-> "Basic ", encoded |-> Encoded(TRUE, <<"admin", ":", "changeme">>)]}

AcceptHeaders ==
    { <<>>,                                                           \* no Accept header
      <<MediaRange("text/html", 10), MediaRange("*/*", 8)>>,          \* a browser
      <<MediaRange("application/json", 10)>>,
      <<MediaRange("application/json", 10), MediaRange("text/html", 1)>> }

FormAcceptHeaders ==
    { <<MediaRange("text/html", 10), MediaRange("*/*", 8)>>,
      <<MediaRange("application/json", 10)>> }

\* the tokens get_csrf_token can hand out: the session's own, or a new one
FreshTokens(s) == IF "csrf_token" \in DOMAIN s THEN {s["csrf_token"]} ELSE {"t1", "t2"}

FormCredentials ==
    { <<"admin", "changeme">>, <<"root", "s:p">>, <<"admin", "x">>, <<"x", "changeme">> }

CsrfTokens == {"t1", "t2"}
FormTokens == CsrfTokens \cup {"forged"}
ServerIdInputs == {"a", "primary", "server_1", "ghost", ""}
FormServerIds == {"a", "primary", "ghost"}

Request(kind, authorization, accept, form) ==
    [kind |-> kind, authorization |-> authorization, accept |-> accept, form |-> form]

\* hx: the request carries the HX-Request header
NoForm == [server_id |-> None, csrf_token |-> None, username |-> None, password |-> None,
           hx |-> FALSE]

\* what the calls on the LiveKit client do, in the order they are made
ApiOutcomes(n) ==
    IF n = 1 THEN {<<"ok">>, <<"error">>}
    ELSE {<<"ok", "ok">>, <<"ok", "error">>, <<"error">>}

BrowserAccept == <<MediaRange("text/html", 10), MediaRange("*/*", 8)>>

Call(kind, server_id) ==
    Request(kind, NoAuthorization, <<>>, [NoForm EXCEPT !.server_id = server_id])

\* status 0: the return of a direct call, no HTTP response.  user and channel
\* are the current_user the handler was given and the channel that gave it;
\* ran tells whether the handler body was entered; api and bundle are filled
\* in by the handlers that call the LiveKit client or render a page with the
\* common template context.
Response(status, location, challenge, a, ret, raised, ran) ==
    [status |-> status, location |-> location, challenge |-> challenge,
     user |-> a.user, channel |-> a.channel, ret |-> ret, raised |-> raised, ran |-> ran,
     api |-> <<>>, bundle |-> Nil]

\* the calls the handler made on the LiveKit client, in order
WithApi(response, calls) == [response EXCEPT !.api = calls]

\* the template context the page was rendered with
WithBundle(response, bundle) == [response EXCEPT !.bundle = bundle]

\* no requires_admin_hybrid dependency on the route
Open == [user |-> None, channel |-> "none"]

Returned(r) == Response(0, None, None, Open, r.ret, r.raised, TRUE)

\* the response of a request that requires_admin_hybrid turned away
Denied(a) == Response(a.status, a.location, a.challenge, a, None, "HTTPException", FALSE)

\* an exception that no handler catches
ServerError(a, raised) == Response(500, None, None, a, None, raised, TRUE)

Page(status, a) == Response(status, None, None, a, None, "none", TRUE)

Redirect(url, a) == Response(303, url, None, a, None, "none", TRUE)

\* what a call of get_server_config_manager() leaves in `boot`
BootAfter(raised, mgr) ==
    IF manager = Nil /\ (mgr # Nil \/ raised # "none") THEN raised ELSE boot

(***************************************************************************)
(* The process is restarted with another configuration; the browser keeps  *)
(* its session cookie.                                                     *)
(***************************************************************************)
Restart(e) ==
    /\ e # env
    /\ env' = e
    /\ manager' = Nil
    /\ boot' = "unstarted"
    /\ req' = NoRequest
    /\ resp' = NoResponse
    /\ UNCHANGED session

(***************************************************************************)
(* Direct calls of the SessionManager operations                           *)
(***************************************************************************)
CallSetSelectedServerId(server_id) ==
    \E r \in {set_selected_server_id(session, manager, env, server_id)} :
        /\ req' = Call("set_selected_server_id", server_id)
        /\ resp' = Returned(r)
        /\ session' = r.session
        /\ manager' = r.manager
        /\ boot' = BootAfter(r.raised, r.manager)
        /\ UNCHANGED env

CallGetCurrentServerId ==
    \E r \in {get_current_server_id(session, manager, env)} :
        /\ req' = Call("get_current_server_id", None)
        /\ resp' = Returned(r)
        /\ manager' = r.manager
        /\ boot' = BootAfter(r.raised, r.manager)
        /\ UNCHANGED <<env, session>>

CallHasServerSelection ==
    \E r \in {has_server_selection(session, manager, env)} :
        /\ req' = Call("has_server_selection", None)
        /\ resp' = Returned(r)
        /\ manager' = r.manager
        /\ boot' = BootAfter(r.raised, r.manager)
        /\ UNCHANGED <<env, session>>

CallClearServerSelection ==
    /\ req' = Call("clear_server_selection", None)
    /\ resp' = Returned([ret |-> None, raised |-> "none"])
    /\ session' = clear_server_selection(session)
    /\ UNCHANGED <<env, manager, boot>>

(***************************************************************************)
(* app/routes/auth.py                                                      *)
(***************************************************************************)
\* GET /login
login_page(fresh) ==
    /\ req' = Request("GET /login", NoAuthorization, <<>>, NoForm)
    /\ IF is_authenticated(session)
       THEN /\ resp' = Redirect("/", Open)
            /\ UNCHANGED session
       ELSE /\ resp' = Page(200, Open)
            /\ session' = get_csrf_token(session, fresh).session
    /\ UNCHANGED <<env, manager, boot>>

\* POST /login
login_submit(username, password, csrf_token, fresh) ==
    /\ req' = Request("POST /login", NoAuthorization, <<>>,
                      [NoForm EXCEPT !.username = username, !.password = password,
                                     !.csrf_token = csrf_token])
    /\ IF ~csrf_validate(session, csrf_token)
       THEN /\ resp' = Page(403, Open)
            /\ session' = get_csrf_token(session, fresh).session
       ELSE IF verify_credentials(env, username, password)
       THEN /\ resp' = Redirect("/", Open)
            /\ session' = login_user(session, username)
       ELSE /\ resp' = Page(401, Open)
            /\ session' = get_csrf_token(session, fresh).session
    /\ UNCHANGED <<env, manager, boot>>

\* GET /logout
logout ==
    /\ req' = Request("GET /logout", NoAuthorization, <<>>, NoForm)
    /\ session' = logout_user(clear_server_selection(session))
    /\ resp' = Page(200, Open)
    /\ UNCHANGED <<env, manager, boot>>

(***************************************************************************)
(* app/routes/server_selection.py.  In each handler a is the outcome of    *)
(* the requires_admin_hybrid dependency and g that of                      *)
(* get_server_config_manager().                                            *)
(***************************************************************************)
\* a protected request that requires_admin_hybrid turned away
Deny(a) ==
    /\ resp' = Denied(a)
    /\ session' = a.session
    /\ UNCHANGED <<manager, boot>>

\* lines 17-33 without the set_selected_server_id of line 23
ServerSelectionPageBodyNoSelect(a, g, fresh) ==
    /\ manager' = g.manager
    /\ boot' = BootAfter(g.raised, g.manager)
    /\ IF g.raised # "none"
       THEN /\ resp' = ServerError(a, g.raised)
            /\ session' = a.session
       ELSE IF Len(list_servers(g.manager)) = 1
       THEN /\ resp' = Redirect("/", a)
            /\ session' = a.session
       ELSE /\ resp' = Page(200, a)
            /\ session' = get_csrf_token(a.session, fresh).session

\* GET /select-server: lines 17-33
ServerSelectionPageBody(a, g, fresh) ==
    /\ manager' = g.manager
    /\ boot' = BootAfter(g.raised, g.manager)
    /\ IF g.raised # "none"
       THEN /\ resp' = ServerError(a, g.raised)
            /\ session' = a.session
       ELSE IF Len(list_servers(g.manager)) = 1
       THEN /\ resp' = Redirect("/", a)
            /\ session' = set_selected_server_id(a.session, g.manager, env,
                                list_servers(g.manager)[1].id).session
       ELSE /\ resp' = Page(200, a)
            /\ session' = get_csrf_token(a.session, fresh).session

\* GET /select-server
server_selection_page(authorization, accept, fresh) ==
    \E r \in {Request("GET /select-server", authorization, accept, NoForm)} :
    \E a \in {requires_admin_hybrid(session, env, r)} :
        /\ req' = r
        /\ UNCHANGED env
        /\ IF ~a.accepted THEN Deny(a)
           ELSE \E g \in {get_server_config_manager(manager, env)} :
                    ServerSelectionPageBody(a, g, fresh)

\* POST /select-server: lines 72-91, w is the outcome of set_selected_server_id
SaveSelection(a, w, fresh) ==
    IF w.ret = "True"
    THEN /\ resp' = Redirect("/", a)
         /\ session' = w.session
    ELSE /\ resp' = Page(500, a)
         /\ session' = get_csrf_token(w.session, fresh).session

\* POST /select-server: lines 42-91
HandleServerSelectionBody(a, g, server_id, csrf_token, fresh) ==
    /\ manager' = g.manager
    /\ boot' = BootAfter(g.raised, g.manager)
    /\ IF g.raised # "none"
       THEN /\ resp' = ServerError(a, g.raised)
            /\ session' = a.session
       ELSE IF ~csrf_validate(a.session, csrf_token)
       THEN /\ resp' = Page(403, a)
            /\ session' = get_csrf_token(a.session, fresh).session
       ELSE IF get_server(g.manager, server_id) = Nil
       THEN /\ resp' = Page(400, a)
            /\ session' = get_csrf_token(a.session, fresh).session
       ELSE \E w \in {set_selected_server_id(a.session, g.manager, env, server_id)} :
                SaveSelection(a, w, fresh)

\* POST /select-server
handle_server_selection(authorization, accept, server_id, csrf_token, fresh) ==
    \E r \in {Request("POST /select-server", authorization, accept,
                      [NoForm EXCEPT !.server_id = server_id,
                                     !.csrf_token = csrf_token])} :
    \E a \in {requires_admin_hybrid(session, env, r)} :
        /\ req' = r
        /\ UNCHANGED env
        /\ IF ~a.accepted THEN Deny(a)
           ELSE \E g \in {get_server_config_manager(manager, env)} :
                    HandleServerSelectionBody(a, g, server_id, csrf_token, fresh)

(***************************************************************************)
(* The handlers that need the active server.  In each body a is the       *)
(* outcome of requires_admin_hybrid, k that of                             *)
(* get_livekit_client_for_request and outcomes what the LiveKit client's   *)
(* calls do.                                                               *)
(***************************************************************************)
\* what get_livekit_client_for_request's use of get_server_config_manager()
\* raised, if it raised
ConstructionOf(raised) == IF raised = RaiseRedirectResponse THEN "none" ELSE raised

\* an exception of the LiveKit client that no handler catches
UpstreamError(a, calls) == WithApi(ServerError(a, "UpstreamError"), calls)

\* the page rendered with get_base_template_context(request): x is its outcome
RenderWithContext(a, x, calls) ==
    /\ resp' = WithBundle(WithApi(Page(200, a), calls), x.bundle)
    /\ session' = x.session

\* the handler could not get a client
NoClient(a, k) ==
    /\ resp' = ServerError(a, k.raised)
    /\ session' = a.session

\* verify_csrf_token(request) raised
CsrfRejected(a) ==
    /\ resp' = Response(403, None, None, a, None, "HTTPException", TRUE)
    /\ session' = a.session
    /\ UNCHANGED <<manager, boot>>

\* app/routes/rooms.py rooms_index, lines 25-53
RoomsIndexBody(a, r, k, outcomes, fresh) ==
    /\ manager' = k.manager
    /\ boot' = BootAfter(ConstructionOf(k.raised), k.manager)
    /\ IF k.raised # "none" THEN NoClient(a, k)
       ELSE IF outcomes[1] = "error"
       THEN /\ resp' = UpstreamError(a, <<"list_rooms">>)
            /\ session' = a.session
       ELSE \E x \in {get_base_template_context(a.session, k.manager, env, r, fresh)} :
                RenderWithContext(a, x, <<"list_rooms">>)

\* GET /rooms
rooms_index(authorization, accept, outcomes, fresh) ==
    \E r \in {Request("GET /rooms", authorization, accept, NoForm)} :
    \E a \in {requires_admin_hybrid(session, env, r)} :
        /\ req' = r
        /\ UNCHANGED env
        /\ IF ~a.accepted THEN Deny(a)
           ELSE \E k \in {get_livekit_client_for_request(a.session, manager, env)} :
                    RoomsIndexBody(a, r, k, outcomes, fresh)

\* app/routes/rooms.py create_room, lines 72-103: the try block
CreateRoomTry(a, r, k, outcomes, fresh) ==
    IF outcomes[1] = "error"
    THEN /\ resp' = WithApi(Redirect("/rooms", a), <<"create_room">>)
         /\ session' = a.session
    ELSE IF ~r.form.hx
    THEN /\ resp' = WithApi(Redirect("/rooms", a), <<"create_room">>)
         /\ session' = a.session
    ELSE IF outcomes[2] = "error"
    THEN /\ resp' = WithApi(Redirect("/rooms", a), <<"create_room", "list_rooms">>)
         /\ session' = a.session
    ELSE \E x \in {get_base_template_context(a.session, k.manager, env, r, fresh)} :
             RenderWithContext(a, x, <<"create_room", "list_rooms">>)

\* create_room, lines 69-103
CreateRoomBody(a, r, k, outcomes, fresh) ==
    /\ manager' = k.manager
    /\ boot' = BootAfter(ConstructionOf(k.raised), k.manager)
    /\ IF k.raised # "none" THEN NoClient(a, k)
       ELSE CreateRoomTry(a, r, k, outcomes, fresh)

\* POST /rooms
create_room(authorization, csrf_token, hx, outcomes, fresh) ==
    \E r \in {Request("POST /rooms", authorization, BrowserAccept,
                      [NoForm EXCEPT !.csrf_token = csrf_token, !.hx = hx])} :
    \E a \in {requires_admin_hybrid(session, env, r)} :
        /\ req' = r
        /\ UNCHANGED env
        /\ IF ~a.accepted THEN Deny(a)
           ELSE IF verify_csrf_token(a.session, r) # "none" THEN CsrfRejected(a)
           ELSE \E k \in {get_livekit_client_for_request(a.session, manager, env)} :
                    CreateRoomBody(a, r, k, outcomes, fresh)

\* app/routes/sandbox.py generate_sandbox_token, lines 56-102
GenerateSandboxTokenBody(a, r, k, outcomes, fresh) ==
    /\ manager' = k.manager
    /\ boot' = BootAfter(ConstructionOf(k.raised), k.manager)
    /\ IF k.raised # "none" THEN NoClient(a, k)
       ELSE IF outcomes[1] = "error"
       THEN /\ resp' = UpstreamError(a, <<"generate_token">>)
            /\ session' = a.session
       ELSE \E x \in {get_base_template_context(a.session, k.manager, env, r, fresh)} :
                RenderWithContext(a, x, <<"generate_token">>)

\* POST /sandbox/generate
generate_sandbox_token(authorization, csrf_token, outcomes, fresh) ==
    \E r \in {Request("POST /sandbox/generate", authorization, BrowserAccept,
                      [NoForm EXCEPT !.csrf_token = csrf_token])} :
    \E a \in {requires_admin_hybrid(session, env, r)} :
        /\ req' = r
        /\ UNCHANGED env
        /\ IF ~a.accepted THEN Deny(a)
           ELSE IF verify_csrf_token(a.session, r) # "none" THEN CsrfRejected(a)
           ELSE \E k \in {get_livekit_client_for_request(a.session, manager, env)} :
                    GenerateSandboxTokenBody(a, r, k, outcomes, fresh)

\* a direct call of get_current_user_hybrid(request)
CallGetCurrentUserHybrid(authorization) ==
    \E r \in {Request("get_current_user_hybrid", authorization, <<>>, NoForm)} :
        /\ req' = r
        /\ resp' = Returned([ret |-> get_current_user_hybrid(session, r), raised |-> "none"])
        /\ UNCHANGED <<env, manager, boot, session>>

(***************************************************************************)
(* The dashboard: one process, one browser session                         *)
(***************************************************************************)
Init ==
    /\ env \in DeployEnvs
    /\ manager = Nil
    /\ boot = "unstarted"
    /\ session = EmptySession
    /\ req = NoRequest
    /\ resp = NoResponse

\* what a running process does: it builds the registry and serves requests
Serve ==
    \/ Startup
    \/ \E id \in ServerIdInputs : CallSetSelectedServerId(id)
    \/ CallGetCurrentServerId
    \/ CallHasServerSelection
    \/ CallClearServerSelection
    \/ \E fresh \in FreshTokens(session) : login_page(fresh)
    \/ \E c \in FormCredentials, t \in FormTokens, fresh \in FreshTokens(session) :
            login_submit(c[1], c[2], t, fresh)
    \/ logout
    \/ \E h \in AuthorizationHeaders, ac \in AcceptHeaders, fresh \in FreshTokens(session) :
            server_selection_page(h, ac, fresh)
    \/ \E h \in FormAuthorizationHeaders, ac \in FormAcceptHeaders, id \in FormServerIds,
          t \in FormTokens, fresh \in FreshTokens(session) :
            handle_server_selection(h, ac, id, t, fresh)

Next ==
    \/ \E e \in DeployEnvs : Restart(e)
    \/ Serve

Spec == Init /\ [][Next]_vars

\* one process lifetime: the configuration, and so the registry, stays what
\* it was at startup
SpecFixed == Init /\ [][Serve]_vars

\* the token a form is posted with: the one the session holds, or a forged one
PostedTokens(s) == {Get(s, CSRF_KEY, "t1"), "forged"}

\* the dashboard seen through the pages that need the active server, with the
\* requests that log in, select a server and log out
NextPages ==
    \/ Startup
    \/ \E e \in DeployEnvs : Restart(e)
    \/ \E id \in FormServerIds : CallSetSelectedServerId(id)
    \/ \E fresh \in FreshTokens(session) : login_page(fresh)
    \/ \E t \in PostedTokens(session), fresh \in FreshTokens(session) :
            login_submit("admin", "changeme", t, fresh)
    \/ logout
    \/ \E h \in FormAuthorizationHeaders, fresh \in FreshTokens(session) :
            server_selection_page(h, BrowserAccept, fresh)
    \/ \E h \in FormAuthorizationHeaders, id \in FormServerIds,
          t \in PostedTokens(session), fresh \in FreshTokens(session) :
            handle_server_selection(h, BrowserAccept, id, t, fresh)
    \/ \E h \in FormAuthorizationHeaders, o \in ApiOutcomes(1),
          fresh \in FreshTokens(session) :
            rooms_index(h, BrowserAccept, o, fresh)
    \/ \E h \in FormAuthorizationHeaders, t \in PostedTokens(session), hx \in BOOLEAN,
          fresh \in FreshTokens(session) :
            \E o \in ApiOutcomes(IF hx THEN 2 ELSE 1) : create_room(h, t, hx, o, fresh)
    \/ \E h \in FormAuthorizationHeaders, t \in PostedTokens(session),
          o \in ApiOutcomes(1), fresh \in FreshTokens(session) :
            generate_sandbox_token(h, t, o, fresh)
    \/ \E h \in AuthorizationHeaders : CallGetCurrentUserHybrid(h)

SpecPages == Init /\ [][NextPages]_vars

(***************************************************************************)
(* What an environment asks for, read off the environment alone            *)
(***************************************************************************)
ItemValid(it) ==
    /\ RequiredFields \subseteq DOMAIN it
    /\ DOMAIN it \subseteq RequiredFields \cup OptionalFields
    /\ \A f \in RequiredFields : Truthy(it[f])

JsonItemsOf(e) == e.LIVEKIT_SERVERS.items

\* LIVEKIT_SERVERS is a JSON array whose entries are all valid profiles
JsonWellFormed(e) ==
    /\ e.LIVEKIT_SERVERS.kind = "array"
    /\ \A i \in DOMAIN JsonItemsOf(e) : ItemValid(JsonItemsOf(e)[i])

\* LIVEKIT_SERVERS is unset, or set to something that is not such an array
JsonAbsentOrInvalid(e) == ~JsonWellFormed(e)

JsonDistinctIds(e) ==
    \A i, k \in DOMAIN JsonItemsOf(e) :
        JsonItemsOf(e)[i].id = JsonItemsOf(e)[k].id => i = k

\* ids of the entries that precede the first invalid entry of the array
JsonAcceptedIds(e) ==
    {JsonItemsOf(e)[i].id : i \in {k \in DOMAIN JsonItemsOf(e) :
                                     \A h \in 1..k : ItemValid(JsonItemsOf(e)[h])}}

PrimarySet(e) ==
    Truthy(e.LIVEKIT_URL) /\ Truthy(e.LIVEKIT_API_KEY) /\ Truthy(e.LIVEKIT_API_SECRET)

NumberedFull(e, n) ==
    /\ n \in DOMAIN e.numbered
    /\ Truthy(e.numbered[n].url)
    /\ Truthy(e.numbered[n].key)
    /\ Truthy(e.numbered[n].secret)

\* every index 1..n is fully set
NumberedPrefix(e, n) == \A k \in 1..n : NumberedFull(e, k)

NumberedIds(e) ==
    {"server_" \o ToString(n) : n \in {k \in DOMAIN e.numbered : NumberedPrefix(e, k)}}

\* where a stored profile comes from
FromJson(e, c) ==
    \E i \in DOMAIN JsonItemsOf(e) :
        /\ ItemValid(JsonItemsOf(e)[i])
        /\ c.id = JsonItemsOf(e)[i].id
        /\ c.url = JsonItemsOf(e)[i].url
        /\ c.name = JsonItemsOf(e)[i].name

FromFlat(e, c) ==
    /\ c.id = "primary"
    /\ c.description = "Primary LiveKit server"
    /\ c.url = e.LIVEKIT_URL
    /\ c.api_key = e.LIVEKIT_API_KEY
    /\ c.api_secret = e.LIVEKIT_API_SECRET

FromNumbered(e, c) ==
    \E n \in DOMAIN e.numbered :
        /\ c.id = "server_" \o ToString(n)
        /\ c.description = "LiveKit server " \o ToString(n)
        /\ c.url = e.numbered[n].url

Constructed == boot = "none" /\ manager # Nil

Registry == {manager.servers[i] : i \in DOMAIN manager.servers}

(***************************************************************************)
(* C1                                                                      *)
(***************************************************************************)
\* C1 as stated: after construction every profile of the registry comes from
\* one and the same loading strategy (the JSON list, the flat primary set or
\* the numbered groups); no other strategy has added a profile.
C1_OneStrategyOnly ==
    Constructed =>
        \/ \A c \in Registry : FromJson(env, c)
        \/ \A c \in Registry : FromFlat(env, c)
        \/ \A c \in Registry : FromNumbered(env, c)

\* C1 amended: a LIVEKIT_SERVERS list that loads completely is the only source
\* of the registry; in every other case the flat primary profile and the
\* numbered profiles are both loaded into one registry, next to the entries a
\* failing LIVEKIT_SERVERS list stored before it failed.
C1_JsonExclusiveElseMerge ==
    Constructed =>
        IF JsonWellFormed(env)
        THEN /\ Keys(manager.servers) = {it.id : it \in {JsonItemsOf(env)[i] : i \in DOMAIN JsonItemsOf(env)}}
             /\ \A c \in Registry : FromJson(env, c)
        ELSE /\ Keys(manager.servers) =
                    JsonAcceptedIds(env)
                    \cup (IF PrimarySet(env) THEN {"primary"} ELSE {})
                    \cup NumberedIds(env)
             /\ PrimarySet(env) => FromFlat(env, get_server(manager, "primary"))
             /\ \A id \in NumberedIds(env) : FromNumbered(env, get_server(manager, id))

\* a list that loads although the flat and numbered variables are set, and a
\* registry merged from the flat and the numbered variables
C1_Witness ==
    /\ Constructed
    /\ PrimarySet(env)
    /\ NumberedFull(env, 1)
    /\ \/ JsonWellFormed(env) /\ Len(JsonItemsOf(env)) = 2
       \/ env.LIVEKIT_SERVERS.kind = "unset" /\ Len(manager.servers) >= 2

(***************************************************************************)
(* C2                                                                      *)
(***************************************************************************)
\* C2: construction never completes successfully with an empty registry; an
\* environment in which no strategy yields a profile makes it fail.
C2_NeverEmptyRegistry ==
    Constructed => Len(manager.servers) > 0

(***************************************************************************)
(* C3                                                                      *)
(***************************************************************************)
\* C3 as stated: for a well-formed LIVEKIT_SERVERS array with at least one
\* entry, list_servers() is as long as the array and get_default_server() is
\* its first entry.
C3_ListLengthAndDefault ==
    (boot # "unstarted" /\ JsonWellFormed(env) /\ Len(JsonItemsOf(env)) >= 1) =>
        /\ Constructed
        /\ Len(list_servers(manager)) = Len(JsonItemsOf(env))
        /\ get_default_server(manager) = ServerConfig(JsonItemsOf(env)[1]).value

\* C3 amended: the same for a well-formed array whose entries have pairwise
\* distinct ids.
C3_DistinctIdsListLengthAndDefault ==
    (boot # "unstarted" /\ JsonWellFormed(env) /\ Len(JsonItemsOf(env)) >= 1
        /\ JsonDistinctIds(env)) =>
        /\ Constructed
        /\ Len(list_servers(manager)) = Len(JsonItemsOf(env))
        /\ get_default_server(manager) = ServerConfig(JsonItemsOf(env)[1]).value

C3_Witness ==
    /\ Constructed
    /\ JsonWellFormed(env)
    /\ JsonDistinctIds(env)
    /\ Len(JsonItemsOf(env)) >= 2
    /\ Len(list_servers(manager)) = Len(JsonItemsOf(env))

(***************************************************************************)
(* C4                                                                      *)
(***************************************************************************)
\* C4 as stated: LIVEKIT_SERVERS absent or invalid and the three flat
\* variables set give a registry of exactly one profile, "primary", the default.
C4_ExactlyPrimary ==
    (Constructed /\ JsonAbsentOrInvalid(env) /\ PrimarySet(env)) =>
        /\ Len(manager.servers) = 1
        /\ manager.servers[1].id = "primary"
        /\ manager.default_server_id = "primary"

\* C4 amended: in that case the registry holds the profile "primary" built from
\* the flat variables and it is the default; it is the only profile exactly
\* when LIVEKIT_*_1 is not fully set and the invalid LIVEKIT_SERVERS stored no
\* entry under another id before it failed.
C4_PrimaryPresentAndDefault ==
    (Constructed /\ JsonAbsentOrInvalid(env) /\ PrimarySet(env)) =>
        /\ FromFlat(env, get_server(manager, "primary"))
        /\ get_default_server(manager) = get_server(manager, "primary")
        /\ manager.default_server_id = "primary"
        /\ Len(manager.servers) = 1 <=>
                (~NumberedFull(env, 1) /\ JsonAcceptedIds(env) \subseteq {"primary"})

C4_Witness ==
    /\ Constructed
    /\ env.LIVEKIT_SERVERS.kind = "malformed"
    /\ PrimarySet(env)
    /\ NumberedFull(env, 1)
    /\ manager.default_server_id = "primary"
    /\ Len(manager.servers) > 1

(***************************************************************************)
(* C5                                                                      *)
(***************************************************************************)
NumberedLoaded(n) ==
    LET c == get_server(manager, "server_" \o ToString(n))
    IN  /\ c # Nil
        /\ c.description = "LiveKit server " \o ToString(n)
        /\ c.url = NumberedGet(env, n, "url")

\* C5: when the numbered scan has run and construction completed, server_n is
\* loaded exactly when every index 1..n is fully set (a group behind a gap is
\* never loaded); server_1 becomes the default only if the flat variables
\* gave no primary profile, and it does become the default when nothing was
\* stored before it.
C5_NumberedScan ==
    (Constructed /\ ~JsonWellFormed(env)) =>
        /\ \A n \in 1..(MaxIndex + 1) : NumberedLoaded(n) <=> NumberedPrefix(env, n)
        /\ (manager.default_server_id = "server_1" /\ NumberedLoaded(1))
                => ~PrimarySet(env)
        /\ PrimarySet(env) => manager.default_server_id = "primary"
        /\ (NumberedFull(env, 1) /\ ~PrimarySet(env) /\ JsonAcceptedIds(env) = {})
                => manager.default_server_id = "server_1"

\* indices 1 and 3 set with 2 incomplete: only server_1 is loaded
C5_Witness ==
    /\ Constructed
    /\ env.LIVEKIT_SERVERS.kind = "unset"
    /\ NumberedFull(env, 1) /\ ~NumberedFull(env, 2) /\ NumberedFull(env, 3)
    /\ Keys(manager.servers) = {"server_1"}
    /\ manager.default_server_id = "server_1"

(***************************************************************************)
(* What a request asks for, read off the request alone                     *)
(***************************************************************************)
\* the routes that depend on requires_admin_hybrid
Protected(r) ==
    r.kind \in {"GET /select-server", "POST /select-server",
                "GET /rooms", "POST /rooms", "POST /sandbox/generate"}

\* the Basic credentials of the header read as username:password, for some
\* colon of the decoded text, are the configured admin credentials
CredentialsMatch(e, h) ==
    /\ h.scheme = "Basic "
    /\ h.encoded.valid
    /\ \E i \in DOMAIN h.encoded.chars :
          /\ h.encoded.chars[i] = ":"
          /\ Join(SubSeq(h.encoded.chars, 1, i - 1))
                = EnvGet(e.ADMIN_USERNAME, DEFAULT_ADMIN_USERNAME)
          /\ Join(SubSeq(h.encoded.chars, i + 1, Len(h.encoded.chars)))
                = EnvGet(e.ADMIN_PASSWORD, DEFAULT_ADMIN_PASSWORD)

\* the user name the matching header carries
HeaderUser(e) == EnvGet(e.ADMIN_USERNAME, DEFAULT_ADMIN_USERNAME)

\* text/html is one of the media ranges of the Accept header
ContainsTextHtml(accept) == \E i \in DOMAIN accept : accept[i].type = "text/html"

\* text/html is a media range of the Accept header and none has a higher weight
PrefersHtml(accept) ==
    \E i \in DOMAIN accept :
        /\ accept[i].type = "text/html"
        /\ \A k \in DOMAIN accept : accept[k].q <= accept[i].q

\* the session keys other than k are what they were
OthersKept(s, t, k) ==
    /\ DOMAIN t \ {k} = DOMAIN s \ {k}
    /\ \A x \in DOMAIN s \ {k} : t[x] = s[x]

(***************************************************************************)
(* C6: set_selected_server_id with an id that is not in the registry       *)
(* returns false and leaves the session as it was; with a registered id it *)
(* returns true and afterwards the session's selected id is that id (the   *)
(* other session keys are untouched).  Stated for calls that return, i.e.  *)
(* where a registry exists.                                                *)
(***************************************************************************)
C6_SetSelectedStep ==
    (req'.kind = "set_selected_server_id" /\ resp'.raised = "none") =>
        IF req'.form.server_id \in Keys(manager'.servers)
        THEN /\ resp'.ret = "True"
             /\ get_selected_server_id(session') = req'.form.server_id
             /\ OthersKept(session, session', SESSION_SERVER_KEY)
        ELSE /\ resp'.ret = "False"
             /\ session' = session

C6_SetSelectedValidates == [][C6_SetSelectedStep]_vars

\* an unknown id was refused while another selection was stored, and a known
\* id is what the session now selects
C6_Witness ==
    /\ req.kind = "set_selected_server_id"
    /\ req.form.server_id = "ghost"
    /\ resp.ret = "False"
    /\ get_selected_server_id(session) = "a"
    /\ "a" \in Keys(manager.servers)
    /\ is_authenticated(session)

(***************************************************************************)
(* C7: get_current_server_id returns the stored id only if that id         *)
(* resolves in the registry at the time of the call, and absent otherwise  *)
(* (also when nothing is stored); has_server_selection is true exactly in  *)
(* the states where get_current_server_id is not absent.  Stated for calls *)
(* that return.                                                            *)
(***************************************************************************)
StoredIdResolves ==
    /\ Has(session, SESSION_SERVER_KEY)
    /\ manager # Nil
    /\ session[SESSION_SERVER_KEY] \in Keys(manager.servers)

C7_ReadTimeRevalidation ==
    /\ (req.kind = "get_current_server_id" /\ resp.raised = "none") =>
            resp.ret = (IF StoredIdResolves THEN session[SESSION_SERVER_KEY] ELSE None)
    /\ (req.kind = "has_server_selection" /\ resp.raised = "none") =>
            resp.ret = (IF StoredIdResolves THEN "True" ELSE "False")

\* the session still holds an id that the registry of the restarted process
\* does not know: the read answers absent
C7_Witness ==
    /\ req.kind = "get_current_server_id"
    /\ resp.raised = "none"
    /\ Has(session, SESSION_SERVER_KEY)
    /\ manager # Nil
    /\ Keys(manager.servers) # {}
    /\ session[SESSION_SERVER_KEY] \notin Keys(manager.servers)
    /\ resp.ret = None

(***************************************************************************)
(* C8: a request to a protected route on a session that is not             *)
(* authenticated, with an Authorization: Basic header whose credentials    *)
(* are the configured admin credentials, is accepted with that username    *)
(* and leaves the session authenticated as that user; a request on an      *)
(* authenticated session that carries no Authorization header is accepted  *)
(* with the session's user.                                                *)
(***************************************************************************)
C8_AutoLoginStep ==
    /\ (Protected(req') /\ ~is_authenticated(session)
            /\ CredentialsMatch(env, req'.authorization)) =>
          /\ resp'.ran
          /\ resp'.user = HeaderUser(env)
          /\ is_authenticated(session')
          /\ get_current_user(session') = HeaderUser(env)
    /\ (Protected(req') /\ is_authenticated(session)
            /\ req'.authorization = NoAuthorization) =>
          /\ resp'.ran
          /\ resp'.user = get_current_user(session)
          /\ resp'.channel = "session"

C8_BasicAutoLoginPersists == [][C8_AutoLoginStep]_vars

\* the Basic channel accepted the request and the session is now logged in
C8_Witness ==
    /\ Protected(req)
    /\ resp.channel = "basic"
    /\ resp.user = "root"
    /\ req.authorization.encoded.chars = <<"root", ":", "s", ":", "p">>
    /\ is_authenticated(session)
    /\ get_current_user(session) = "root"

(***************************************************************************)
(* C9: after logout the session holds nothing: it is not authenticated,    *)
(* has no username, no selected server and no other key.                   *)
(***************************************************************************)
C9_LogoutClearsSession ==
    req.kind = "GET /logout" =>
        /\ DOMAIN session = {}
        /\ ~is_authenticated(session)
        /\ get_current_user(session) = None
        /\ get_selected_server_id(session) = None

C9_Witness ==
    /\ req.kind = "GET /logout"
    /\ resp.status = 200
    /\ session = EmptySession
    /\ manager # Nil

(***************************************************************************)
(* C10 as stated: a protected request on which neither channel succeeds    *)
(* is answered, without running the handler, by a 303 redirect to /login   *)
(* if its Accept header prefers HTML and by a 401 whose challenge names    *)
(* Basic and Session otherwise; the session stays unauthenticated.         *)
(***************************************************************************)
NeitherChannel == Protected(req') /\ ~is_authenticated(session)
                    /\ ~CredentialsMatch(env, req'.authorization)

RedirectedToLogin(r) == r.status = HTTP_303_SEE_OTHER /\ r.location = "/login"

Challenged(r) == r.status = HTTP_401_UNAUTHORIZED /\ r.challenge = "Basic, Session"

C10_PrefersStep ==
    NeitherChannel =>
        /\ ~resp'.ran
        /\ ~is_authenticated(session')
        /\ IF PrefersHtml(req'.accept) THEN RedirectedToLogin(resp') ELSE Challenged(resp')

C10_PrefersHtmlRedirect == [][C10_PrefersStep]_vars

(***************************************************************************)
(* C10 amended: the redirect is given to every request whose Accept header *)
(* contains text/html anywhere, whatever its weight; every other request   *)
(* gets the 401 with the challenge "Basic, Session".  The handler does not *)
(* run and the session stays unauthenticated.                              *)
(***************************************************************************)
C10_ContainsStep ==
    NeitherChannel =>
        /\ ~resp'.ran
        /\ ~is_authenticated(session')
        /\ IF ContainsTextHtml(req'.accept) THEN RedirectedToLogin(resp')
           ELSE Challenged(resp')

C10_ContainsHtmlRedirect == [][C10_ContainsStep]_vars

\* a request that prefers JSON and only tolerates HTML was redirected
C10_Witness ==
    /\ Protected(req)
    /\ ~PrefersHtml(req.accept)
    /\ ContainsTextHtml(req.accept)
    /\ RedirectedToLogin(resp)
    /\ ~resp.ran
    /\ ~is_authenticated(session)

(***************************************************************************)
(* C12: the login action changes only the authentication fields: after a   *)
(* successful login is_authenticated is true and authenticated_user is the *)
(* submitted username, and every other session key (selected_server_id,    *)
(* CSRF token) has the value it had before.                                *)
(***************************************************************************)
\* the session keys outside K are what they were
KeptOutside(s, t, K) ==
    /\ DOMAIN t \ K = DOMAIN s \ K
    /\ \A x \in DOMAIN s \ K : t[x] = s[x]

AuthKeys == {SESSION_AUTH_KEY, SESSION_USER_KEY}

LoggedInAs(before, after, username) ==
    /\ is_authenticated(after)
    /\ get_current_user(after) = username
    /\ KeptOutside(before, after, AuthKeys)

C12_LoginStep ==
    /\ \A c \in FormCredentials : LoggedInAs(session, login_user(session, c[1]), c[1])
    /\ (req'.kind = "POST /login" /\ resp'.status = 303) =>
            LoggedInAs(session, session', req'.form.username)

C12_LoginChangesOnlyAuthFields == [][C12_LoginStep]_vars

\* a login on a session that already held a selection and a CSRF token
C12_Witness ==
    /\ req.kind = "POST /login"
    /\ resp.status = 303
    /\ get_current_user(session) = req.form.username
    /\ get_selected_server_id(session) = "a"
    /\ Has(session, CSRF_KEY)
    /\ session[CSRF_KEY] = req.form.csrf_token

(***************************************************************************)
(* C13: the session channel is evaluated first: on a session with          *)
(* is_authenticated = true requires_admin_hybrid accepts with the stored   *)
(* username whatever Authorization header the request carries (absent,     *)
(* malformed, wrong credentials, another user's valid credentials) and     *)
(* does not modify the session.                                            *)
(***************************************************************************)
C13_SessionFirstStep ==
    (Protected(req') /\ is_authenticated(session)) =>
        /\ requires_admin_hybrid(session, env, req')
              = Accepted(get_current_user(session), session, "session")
        /\ resp'.ran
        /\ resp'.channel = "session"
        /\ resp'.user = get_current_user(session)
        /\ is_authenticated(session')
        /\ get_current_user(session') = get_current_user(session)

ExpectedUsername(e) == IF e.ADMIN_USERNAME = None THEN "admin" ELSE e.ADMIN_USERNAME

ExpectedPassword(e) == IF e.ADMIN_PASSWORD = None THEN "changeme" ELSE e.ADMIN_PASSWORD

CredentialStrings == {"admin", "changeme", "root", "s:p", "x", ""}

C14_VerifyCredentialsExact ==
    /\ \A u \in CredentialStrings, p \in CredentialStrings :
          verify_credentials(env, u, p)
             <=> (u = ExpectedUsername(env) /\ p = ExpectedPassword(env))
    /\ (req.kind = "POST /login" /\ resp.status \in {303, 401}) =>
          (resp.status = 303
             <=> (req.form.username = ExpectedUsername(env)
                    /\ req.form.password = ExpectedPassword(env)))

\* the right username with a wrong password was turned away at the login form
C14_Witness ==
    /\ req.kind = "POST /login"
    /\ req.form.username = ExpectedUsername(env)
    /\ req.form.password # ExpectedPassword(env)
    /\ resp.status = 401
    /\ ~is_authenticated(session)

(***************************************************************************)
(* C16: GET /select-server by an authenticated caller, when exactly one    *)
(* server is registered, sets the session's selected_server_id to that     *)
(* server's id and redirects (303) to /; when more than one server is      *)
(* registered the request leaves the session's selection as it was.        *)
(***************************************************************************)
C16_SelectionPageStep ==
    (req'.kind = "GET /select-server" /\ resp'.ran /\ resp'.raised = "none") =>
        /\ Len(manager'.servers) = 1 =>
              /\ get_selected_server_id(session') = manager'.servers[1].id
              /\ resp'.status = 303
              /\ resp'.location = "/"
        /\ Len(manager'.servers) > 1 =>
              /\ Has(session', SESSION_SERVER_KEY) = Has(session, SESSION_SERVER_KEY)
              /\ get_selected_server_id(session') = get_selected_server_id(session)
              /\ resp'.status = 200

C16_SingleServerAutoSelect == [][C16_SelectionPageStep]_vars

\* the only server was selected for a caller who had picked nothing
C16_Witness ==
    /\ req.kind = "GET /select-server"
    /\ resp.status = 303
    /\ resp.location = "/"
    /\ resp.user # None
    /\ Len(manager.servers) = 1
    /\ get_selected_server_id(session) = "primary"

(***************************************************************************)
(* C18: a failed LIVEKIT_SERVERS load leaves no residue: if the load fails *)
(* (malformed JSON, or an entry that fails validation after earlier        *)
(* entries were accepted), no profile taken from LIVEKIT_SERVERS is in the *)
(* registry after construction and the default id is not an id taken from  *)
(* it.                                                                     *)
(***************************************************************************)
\* LIVEKIT_SERVERS is set and its load raises
JsonFailed(e) ==
    \/ e.LIVEKIT_SERVERS.kind \in {"malformed", "null"}
    \/ /\ e.LIVEKIT_SERVERS.kind = "array"
       /\ \E i \in DOMAIN JsonItemsOf(e) : ~ItemValid(JsonItemsOf(e)[i])

C18_NoJsonResidue ==
    (Constructed /\ JsonFailed(env)) =>
        /\ \A c \in Registry : ~FromJson(env, c)
        /\ ~\E c \in Registry : FromJson(env, c) /\ c.id = manager.default_server_id

(***************************************************************************)
(* C19: over any sequence of requests on one session, the session becomes  *)
(* authenticated only in a request that passed verify_credentials (a login *)
(* submit or a Basic header), and then for the verified username; a logout *)
(* ends it; wrong credentials and rejected requests never make the session *)
(* authenticated; is_authenticated = true always comes with a stored       *)
(* authenticated_user.                                                     *)
(***************************************************************************)
\* the request of this step passed verify_credentials for username u
PassedVerification(r, e, u) ==
    \/ /\ r.kind = "POST /login"
       /\ r.form.username = u
       /\ verify_credentials(e, r.form.username, r.form.password)
    \/ /\ Protected(r)
       /\ CredentialsMatch(e, r.authorization)
       /\ u = ExpectedUsername(e)

C19_AuthStep ==
    /\ (is_authenticated(session') /\ ~is_authenticated(session)) =>
            PassedVerification(req', env, get_current_user(session'))
    /\ (is_authenticated(session') /\ is_authenticated(session)
            /\ get_current_user(session') # get_current_user(session)) =>
            PassedVerification(req', env, get_current_user(session'))
    /\ is_authenticated(session') =>
            (Has(session', SESSION_USER_KEY) /\ session'[SESSION_USER_KEY] # None)
    /\ req'.kind = "GET /logout" => ~is_authenticated(session')
    /\ (\/ Protected(req') /\ resp'.raised = "HTTPException"
        \/ req'.kind = "POST /login" /\ resp'.status \in {401, 403}) =>
            (is_authenticated(session') => is_authenticated(session))

SelectionRegistered(s, mgr) ==
    Has(s, SESSION_SERVER_KEY) =>
        (mgr # Nil /\ s[SESSION_SERVER_KEY] \in Keys(mgr.servers))

C20_SelectionStep ==
    /\ SelectionRegistered(session', manager')
    /\ req'.kind = "clear_server_selection" =>
          /\ ~Has(session', SESSION_SERVER_KEY)
          /\ KeptOutside(session, session', {SESSION_SERVER_KEY})
          /\ clear_server_selection(session') = session'

C20_SelectionAbsentOrRegistered == [][C20_SelectionStep]_vars

\* a selection made through the form and kept while the user logged in
C20_Witness ==
    /\ get_selected_server_id(session) = "server_1"
    /\ "server_1" \in Keys(manager.servers)
    /\ Len(manager.servers) > 1
    /\ is_authenticated(session)
    /\ req.kind = "POST /login"

(***************************************************************************)
(* C15: a request to a handler that needs the active server (rooms,        *)
(* sandbox token generation), made on an authenticated session whose       *)
(* get_current_server_id is absent (nothing selected, or a stale id), ends *)
(* in a 303 redirect to /select-server and makes no call on the LiveKit    *)
(* client.  Form posts are taken with a valid CSRF token.                  *)
(***************************************************************************)
NeedsServer(r) == r.kind \in {"GET /rooms", "POST /rooms", "POST /sandbox/generate"}

\* get_current_server_id(request) returns None in this state
CurrentServerAbsent ==
    /\ get_current_server_id(session, manager, env).raised = "none"
    /\ get_current_server_id(session, manager, env).ret = None

PassesCsrf(r, s) == r.kind = "GET /rooms" \/ csrf_validate(s, r.form.csrf_token)

C15_NoServerStep ==
    (NeedsServer(req') /\ is_authenticated(session) /\ PassesCsrf(req', session)
        /\ CurrentServerAbsent) =>
        /\ resp'.status = 303
        /\ resp'.location = "/select-server"
        /\ resp'.api = <<>>

C15_RedirectToSelectServer == [][C15_NoServerStep]_vars

\* the part of C15 that the handlers keep: no call on the LiveKit client
C15_NoApiCallStep ==
    (NeedsServer(req') /\ is_authenticated(session) /\ CurrentServerAbsent) =>
        resp'.api = <<>>

C15_NoApiCallWithoutServer == [][C15_NoApiCallStep]_vars

(***************************************************************************)
(* C17  The user reported by get_current_user_hybrid is a verified         *)
(* identity: a value other than None is returned only when the session is  *)
(* authenticated or the request's Basic header carries a username and a    *)
(* password that pass verify_credentials.                                  *)
(***************************************************************************)
C17_HybridUserVerified ==
    (req.kind = "get_current_user_hybrid" /\ resp.ret # None) =>
        \/ is_authenticated(session)
        \/ CredentialsMatch(env, req.authorization)

\* the part of C17 that the routes keep: every handler that builds the
\* template context runs after requires_admin_hybrid, so the current_user of
\* a rendered bundle is the user of the authenticated session
C17_BundleUserIsSessionUser ==
    (req.kind \in {"GET /rooms", "POST /rooms", "POST /sandbox/generate"}
        /\ resp.status # 0 /\ resp.bundle # Nil) =>
        /\ is_authenticated(session)
        /\ resp.bundle.current_user = get_current_user(session)

(***************************************************************************)
(* C11  A state-changing request (a POST of a form, or any request whose   *)
(* handler writes the session) that lacks a valid CSRF token is answered   *)
(* with a client error (4xx) before any business logic: the session is not *)
(* written and no call on the LiveKit client is made.  Issuing the CSRF    *)
(* token itself (the csrf_token key) is not counted as a session write.    *)
(***************************************************************************)
HttpKinds ==
    {"GET /login", "POST /login", "GET /logout", "GET /select-server",
     "POST /select-server", "GET /rooms", "POST /rooms", "POST /sandbox/generate"}

PostKinds == {"POST /login", "POST /select-server", "POST /rooms", "POST /sandbox/generate"}

\* the request r, arriving on session s, carries no valid token
LacksValidToken(r, s) == ~csrf_validate(s, r.form.csrf_token)

\* the handler wrote a key of the session other than the token's
WritesSession(s, t) == ~KeptOutside(s, t, {CSRF_KEY})

C11_CsrfStep ==
    (/\ req'.kind \in HttpKinds
     /\ req'.kind \in PostKinds \/ WritesSession(session, session')
     /\ LacksValidToken(req', session)) =>
        /\ resp'.status \in 400..499
        /\ ~WritesSession(session, session')
        /\ resp'.api = <<>>

C11_CsrfBeforeBusinessLogic == [][C11_CsrfStep]_vars

\* the part of C11 that the form handlers keep: a POST without a valid token
\* never reaches the LiveKit client and never changes the selected server
C11_PostStep ==
    (req'.kind \in PostKinds /\ LacksValidToken(req', session)) =>
        /\ resp'.api = <<>>
        /\ get_selected_server_id(session') = get_selected_server_id(session)

C11_ForgedPostHasNoEffectOnServer == [][C11_PostStep]_vars

====
